---- MODULE Spec2Model ----
(***************************************************************************)
(* Git activity metrics engine of devex/pulse: repository identifier       *)
(* resolution, local and remote collection, aggregation, the per-block     *)
(* metrics cache, and the block / config commands that surround it.        *)
(*                                                                         *)
(* Conventions                                                             *)
(*   - a JavaScript string that the code inspects character by character   *)
(*     (repository paths, file names) is a tuple of one-character strings; *)
(*   - a Date is its epoch value in milliseconds;                          *)
(*   - null / undefined / "no such file" is the empty tuple <<>> and a     *)
(*     present value v is <<v>>;                                           *)
(*   - a JavaScript number that may be fractional (avgCommitsPerDay) is a  *)
(*     reduced fraction [n, d]; floating-point rounding is not modelled;   *)
(*   - a JavaScript object used as an ordered map (Record<string, T>) is a *)
(*     sequence of <<key, value>> entries in insertion order.              *)
(***************************************************************************)
EXTENDS Integers, Sequences, FiniteSets, TLC

VARIABLES
    now,        \* wall clock, ms since the epoch (new Date())
    config,     \* persisted GlobalConfig.repositories: sequence of Repository
    blocks,     \* blocks/<id>.json of the active experiment: id -> Block
    cache,      \* metrics/<blockId>.json: id -> <<>> or <<file content>>
    tmp,        \* <path>.tmp.<uuid> files of running writeJson calls
    proc,       \* one record per running command invocation
    cmdsLeft,   \* command invocations that may still be started
    faultsLeft, \* failures the outside world may still produce
    maxConc,    \* how many invocations may run at the same time
    token,      \* whether GITHUB_TOKEN / config.github.token is set
    aggIn,      \* aggregator harness: the Record<string, RepoMetrics> built
    aggOut,     \* aggregator harness: <<>> or <<totals>>
    idIn,       \* resolver harness: the repository string given
    idOut,      \* resolver harness: <<>> or <<RepoIdentifier>>
    env         \* what git and the hosting API can answer in this behaviour

vars == <<now, config, blocks, cache, tmp, proc, cmdsLeft, faultsLeft, maxConc, token, aggIn, aggOut,
          idIn, idOut, env>>

\* what no command changes
fixed == <<maxConc, token, aggIn, aggOut, idIn, idOut, env>>

-----------------------------------------------------------------------------
(* Bounds of the exploration                                               *)

MaxCmds == 2         \* command invocations per behaviour
MaxTicks == 1        \* clock advances per behaviour
MaxFaults == 1       \* failures of git, the API or the disk per behaviour
MaxBatchFaults == 2  \* the same, in the behaviours of a single batch
MaxAggRepos == 3     \* entries put into the aggregator harness
MaxRemoteFaults == 1 \* failures of the API in the behaviours over one remote repository

-----------------------------------------------------------------------------
(* Generic helpers                                                         *)

None == <<>>
Some(x) == <<x>>
IsSome(o) == o /= <<>>
Get(o) == o[1]

Max(a, b) == IF a >= b THEN a ELSE b

RECURSIVE Gcd(_, _)
Gcd(a, b) == IF b = 0 THEN a ELSE Gcd(b, a % b)

\* a / b as a reduced fraction (b > 0, a >= 0)
Rat(a, b) == LET g == Gcd(a, b) IN [n |-> a \div g, d |-> b \div g]
RatZero == [n |-> 0, d |-> 1]
RatAdd(x, y) == Rat(x.n * y.d + y.n * x.d, x.d * y.d)
RatDivInt(x, k) == Rat(x.n, x.d * k)

\* Math.ceil(a / b) for a >= 0, b > 0
CeilDiv(a, b) == (a + b - 1) \div b

StartsWith(s, pre) == Len(s) >= Len(pre) /\ SubSeq(s, 1, Len(pre)) = pre
EndsWith(s, suf) ==
    Len(s) >= Len(suf) /\ SubSeq(s, Len(s) - Len(suf) + 1, Len(s)) = suf
Includes(s, sub) ==
    \E i \in 1..(Len(s) - Len(sub) + 1) : SubSeq(s, i, i + Len(sub) - 1) = sub
CountChar(s, c) == Cardinality({i \in 1..Len(s) : s[i] = c})

UpperChars == <<"A","B","C","D","E","F","G","H","I","J","K","L","M",
                "N","O","P","Q","R","S","T","U","V","W","X","Y","Z">>
LowerChars == <<"a","b","c","d","e","f","g","h","i","j","k","l","m",
                "n","o","p","q","r","s","t","u","v","w","x","y","z">>
LowerChar(c) ==
    IF \E i \in 1..26 : UpperChars[i] = c
    THEN LowerChars[CHOOSE i \in 1..26 : UpperChars[i] = c]
    ELSE c
ToLowerCase(s) == [i \in 1..Len(s) |-> LowerChar(s[i])]

\* Ordered map (JavaScript object with string keys)
ObjKeys(o) == [i \in 1..Len(o) |-> o[i][1]]
ObjValues(o) == [i \in 1..Len(o) |-> o[i][2]]
ObjKeySet(o) == {o[i][1] : i \in 1..Len(o)}
ObjHas(o, k) == k \in ObjKeySet(o)
ObjGet(o, k) == o[CHOOSE i \in 1..Len(o) : o[i][1] = k][2]
ObjSet(o, k, v) ==
    IF ObjHas(o, k)
    THEN [i \in 1..Len(o) |-> IF o[i][1] = k THEN <<k, v>> ELSE o[i]]
    ELSE Append(o, <<k, v>>)

-----------------------------------------------------------------------------
(* Program constants                                                       *)

MsPerDay == 86400000     \* 1000 * 60 * 60 * 24

-----------------------------------------------------------------------------
(* Helpers of lib/metrics.ts                                               *)

\* getFirstCommitPerDay: earliest commit date of every UTC calendar day,
\* ascending.  dayKey is toISOString().split("T")[0], the UTC date.
DayKey(t) == t \div MsPerDay

RECURSIVE ByDayFirstSeen(_, _)
ByDayFirstSeen(commits, acc) ==
    IF commits = <<>> THEN acc
    ELSE IF Len(commits) = 1
    THEN LET c == commits[1]
             k == DayKey(c.date)
         IN IF ~ObjHas(acc, k) THEN ObjSet(acc, k, c.date) ELSE acc
    ELSE LET h == Len(commits) \div 2
             first == ByDayFirstSeen(SubSeq(commits, 1, h), acc)
         IN CASE Len(first) > 0 -> ByDayFirstSeen(SubSeq(commits, h + 1, Len(commits)), first)

RECURSIVE ByDay(_, _)
\* the Map built by the loop: dayKey -> earliest date seen, as an ordered map.
\* The loop over a list is the loop over its first half followed by the loop
\* over its second half, started from the map the first half left (non-empty
\* by then); this keeps the evaluation shallow for long lists.
ByDay(commits, acc) ==
    IF commits = <<>> THEN acc
    ELSE IF Len(commits) = 1
    THEN LET c == commits[1]
             k == DayKey(c.date)
         IN IF ~ObjHas(acc, k) \/ c.date < ObjGet(acc, k)
            THEN ObjSet(acc, k, c.date)
            ELSE acc
    ELSE LET h == Len(commits) \div 2
             first == ByDay(SubSeq(commits, 1, h), acc)
         IN CASE Len(first) > 0 -> ByDay(SubSeq(commits, h + 1, Len(commits)), first)

RECURSIVE InsertAsc(_, _)
InsertAsc(sorted, x) ==
    IF sorted = <<>> THEN <<x>>
    ELSE IF x < Head(sorted) THEN <<x>> \o sorted
    ELSE <<Head(sorted)>> \o InsertAsc(Tail(sorted), x)

SortDatesNone(dates) == dates

RECURSIVE SortDatesAsc(_)
\* Array.prototype.sort((a, b) => a.getTime() - b.getTime()), a stable sort
SortDatesAsc(dates) ==
    IF dates = <<>> THEN <<>>
    ELSE InsertAsc(SortDatesAsc(SubSeq(dates, 1, Len(dates) - 1)), dates[Len(dates)])

getFirstCommitPerDay(commits) == SortDatesAsc(ObjValues(ByDay(commits, <<>>)))

ZeroMetrics ==
    [commits |-> 0, linesAdded |-> 0, linesRemoved |-> 0, filesChanged |-> 0,
     testFilesChanged |-> 0, docFilesChanged |-> 0,
     avgCommitsPerDay |-> RatZero, firstCommitTimes |-> <<>>]

AddCountsOverwrite(t, m) ==
    [t EXCEPT !.commits = @ + m.commits,
              !.linesAdded = @ + m.linesAdded,
              !.linesRemoved = m.linesRemoved,
              !.filesChanged = @ + m.filesChanged,
              !.testFilesChanged = @ + m.testFilesChanged,
              !.docFilesChanged = @ + m.docFilesChanged]

\* body of the summing loop of aggregateRepoMetrics for one repository
AddCounts(t, m) ==
    [t EXCEPT !.commits = @ + m.commits,
              !.linesAdded = @ + m.linesAdded,
              !.linesRemoved = @ + m.linesRemoved,
              !.filesChanged = @ + m.filesChanged,
              !.testFilesChanged = @ + m.testFilesChanged,
              !.docFilesChanged = @ + m.docFilesChanged]

RECURSIVE SumCounts(_, _)
SumCounts(vals, t) ==
    IF vals = <<>> THEN t ELSE SumCounts(Tail(vals), AddCounts(t, Head(vals)))

RECURSIVE ReduceAvg(_, _)
\* Object.values(repos).reduce((sum, m) => sum + m.avgCommitsPerDay, 0)
ReduceAvg(vals, sum) ==
    IF vals = <<>> THEN sum
    ELSE ReduceAvg(Tail(vals), RatAdd(sum, Head(vals).avgCommitsPerDay))

AvgOfReposSum(repos) == ReduceAvg(ObjValues(repos), RatZero)

\* "Average commits per day across all repos"
AvgOfRepos(repos) ==
    LET repoCount == Len(ObjKeys(repos))
    IN IF repoCount > 0
       THEN RatDivInt(ReduceAvg(ObjValues(repos), RatZero), repoCount)
       ELSE RatZero

RECURSIVE AllFirstCommitTimes(_)
AllFirstCommitTimes(vals) ==
    IF vals = <<>> THEN <<>>
    ELSE Head(vals).firstCommitTimes \o AllFirstCommitTimes(Tail(vals))

aggregateRepoMetrics(repos) ==
    LET summed == SumCounts(ObjValues(repos), ZeroMetrics)
        all == AllFirstCommitTimes(ObjValues(repos))
    IN [summed EXCEPT
          !.avgCommitsPerDay = AvgOfRepos(repos),
          !.firstCommitTimes =
              getFirstCommitPerDay([i \in 1..Len(all) |-> [hash |-> "", date |-> all[i]]])]

-----------------------------------------------------------------------------
(* Repository identifier resolution                                        *)

Home == <<"/", "h">>      \* Deno.env.get("HOME")
GithubHost == <<"g","i","t","h","u","b",".","c","o","m","/">>
DotGit == <<".","g","i","t">>

LocalId(path) == [type |-> "local", path |-> path, owner |-> <<>>, repo |-> <<>>]
GitHubId(owner, repo) == [type |-> "github", path |-> <<>>, owner |-> owner, repo |-> repo]

\* s has the form <owner>/<name> with both parts non-empty and free of "/"
IsOwnerSlashName(s) ==
    /\ CountChar(s, "/") = 1
    /\ s[1] /= "/"
    /\ s[Len(s)] /= "/"
SlashAt(s) == CHOOSE i \in 1..Len(s) : s[i] = "/"

\* positions where /github\.com\/([^\/]+)\/([^\/]+?)(?:\.git)?$/ can match:
\* "github.com/" followed by owner/name up to the end of the string
UrlMatchStarts(s) ==
    {i \in 1..Len(s) :
        /\ i + Len(GithubHost) - 1 <= Len(s)
        /\ SubSeq(s, i, i + Len(GithubHost) - 1) = GithubHost
        /\ IsOwnerSlashName(SubSeq(s, i + Len(GithubHost), Len(s)))}

\* the lazy ([^\/]+?) followed by (?:\.git)?$ : one trailing ".git" is left
\* out of the capture unless nothing would remain
StripDotGit(name) ==
    IF Len(name) > Len(DotGit) /\ EndsWith(name, DotGit)
    THEN SubSeq(name, 1, Len(name) - Len(DotGit))
    ELSE name

IsLocalMarkerNoDot(repo) == StartsWith(repo, <<"/">>) \/ StartsWith(repo, <<"~">>)

\* repo.startsWith("/") || repo.startsWith("~") || repo.startsWith(".")
IsLocalMarker(repo) ==
    StartsWith(repo, <<"/">>) \/ StartsWith(repo, <<"~">>) \/ StartsWith(repo, <<".">>)

parseRepoIdentifier(repo) ==
    IF IsLocalMarker(repo)
    THEN LocalId(IF StartsWith(repo, <<"~">>) THEN Home \o Tail(repo) ELSE repo)
    ELSE IF UrlMatchStarts(repo) /= {}
    THEN LET i == CHOOSE x \in UrlMatchStarts(repo) : \A y \in UrlMatchStarts(repo) : x <= y
             rest == SubSeq(repo, i + Len(GithubHost), Len(repo))
             k == SlashAt(rest)
         IN GitHubId(SubSeq(rest, 1, k - 1), StripDotGit(SubSeq(rest, k + 1, Len(rest))))
    ELSE IF IsOwnerSlashName(repo)
    THEN LET k == SlashAt(repo)
         IN GitHubId(SubSeq(repo, 1, k - 1), SubSeq(repo, k + 1, Len(repo)))
    ELSE LocalId(repo)

-----------------------------------------------------------------------------
(* File classifier                                                         *)

isTestFile(path) ==
    LET lower == ToLowerCase(path)
    IN \/ Includes(lower, <<".","t","e","s","t",".">>)
       \/ Includes(lower, <<".","s","p","e","c",".">>)
       \/ Includes(lower, <<"_","_","t","e","s","t","_","_">>)
       \/ Includes(lower, <<"_","_","t","e","s","t","s","_","_">>)
       \/ Includes(lower, <<"/","t","e","s","t","/">>)
       \/ Includes(lower, <<"/","t","e","s","t","s","/">>)

isDocFile(path) ==
    LET lower == ToLowerCase(path)
    IN \/ EndsWith(lower, <<".","m","d">>)
       \/ EndsWith(lower, <<".","r","s","t">>)
       \/ EndsWith(lower, <<".","t","x","t">>)
       \/ StartsWith(lower, <<"r","e","a","d","m","e">>)
       \/ Includes(lower, <<"/","d","o","c","s","/">>)
       \/ Includes(lower, <<"/","d","o","c","/">>)

-----------------------------------------------------------------------------
(* Per-repository results                                                  *)

DaysInRangeFloor(startDate, endDate) == Max(1, (endDate - startDate) \div MsPerDay)

\* Math.max(1, Math.ceil((end - start) / (1000 * 60 * 60 * 24)))
DaysInRange(startDate, endDate) == Max(1, CeilDiv(endDate - startDate, MsPerDay))

RECURSIVE SumField(_, _)
SumField(xs, f) == IF xs = <<>> THEN 0 ELSE xs[1][f] + SumField(Tail(xs), f)

SeqToSet(xs) == {xs[i] : i \in 1..Len(xs)}

\* The return value of computeLocalRepoMetrics once the three listings are
\* in.  log / numstat are [success, out]; a "-" count of a binary file is <<>>.
LocalResult(log, numstat, startDate, endDate) ==
    LET commits == IF log.success THEN log.out ELSE <<>>
        lines == IF numstat.success THEN numstat.out ELSE <<>>
        counted == [i \in 1..Len(lines) |->
                      [added |-> IF lines[i].added = <<>> THEN 0 ELSE lines[i].added[1],
                       removed |-> IF lines[i].removed = <<>> THEN 0 ELSE lines[i].removed[1]]]
        files == {lines[i].file : i \in 1..Len(lines)}
    IN [commits |-> Len(commits),
        linesAdded |-> SumField(counted, "added"),
        linesRemoved |-> SumField(counted, "removed"),
        filesChanged |-> Cardinality(files),
        testFilesChanged |-> Cardinality({f \in files : isTestFile(f)}),
        docFilesChanged |-> Cardinality({f \in files : isDocFile(f)}),
        avgCommitsPerDay |-> Rat(Len(commits), DaysInRange(startDate, endDate)),
        firstCommitTimes |-> getFirstCommitPerDay(commits)]

PerPage == 100
MaxPages == 50
SampleLimit == 20

\* commits.filter((_, i) => i % Math.ceil(commits.length / 20) === 0), 0-based
CommitsToFetch(commits) ==
    IF Len(commits) > SampleLimit
    THEN LET step == CeilDiv(Len(commits), SampleLimit)
             idx == {i \in 1..Len(commits) : (i - 1) % step = 0}
         IN [j \in 1..Cardinality(idx) |->
                commits[CHOOSE i \in idx : Cardinality({x \in idx : x < i}) = j - 1]]
    ELSE commits

\* Math.round(v * (total / sampled)) for non-negative integers
ScaleRound(v, total, sampled) == (2 * v * total + sampled) \div (2 * sampled)

\* The return value of computeGitHubRepoMetrics from the listed commits and
\* the accumulated detail: added / removed sums and the set of file names.
RemoteResult(commits, fetched, added, removed, files, startDate, endDate) ==
    LET sampled == fetched < Len(commits)
    IN [commits |-> Len(commits),
        linesAdded |-> IF sampled THEN ScaleRound(added, Len(commits), fetched) ELSE added,
        linesRemoved |-> IF sampled THEN ScaleRound(removed, Len(commits), fetched) ELSE removed,
        filesChanged |-> Cardinality(files),
        testFilesChanged |-> Cardinality({f \in files : isTestFile(f)}),
        docFilesChanged |-> Cardinality({f \in files : isDocFile(f)}),
        avgCommitsPerDay |-> Rat(Len(commits), DaysInRange(startDate, endDate)),
        firstCommitTimes |->
            getFirstCommitPerDay([i \in 1..Len(commits) |->
                                    [hash |-> commits[i].sha, date |-> commits[i].date]])]

-----------------------------------------------------------------------------
(* JSON storage (lib/storage.ts)                                           *)

\* dateReplacer / Date.prototype.toJSON: a Date is written as an ISO string
IsoOf(t) == [iso |-> t]
\* dateReviver: a string value that matches ISO_DATE_PATTERN becomes a Date
DateOf(v) == v.iso

SerializeMetrics(m) ==
    [m EXCEPT !.firstCommitTimes = [i \in 1..Len(@) |-> IsoOf(@[i])]]
ParseMetrics(m) ==
    [m EXCEPT !.firstCommitTimes = [i \in 1..Len(@) |-> DateOf(@[i])]]

\* JSON.stringify(data, dateReplacer, 2) of a GitMetrics document
Serialize(doc) ==
    [block |-> doc.block,
     computedAt |-> IsoOf(doc.computedAt),
     dateRange |-> [start |-> IsoOf(doc.dateRange.start), end |-> IsoOf(doc.dateRange.end)],
     repositories |-> [i \in 1..Len(doc.repositories) |->
                          <<doc.repositories[i][1], SerializeMetrics(doc.repositories[i][2])>>],
     totals |-> SerializeMetrics(doc.totals)]

\* JSON.parse(content, dateReviver)
Parse(text) ==
    [block |-> text.block,
     computedAt |-> DateOf(text.computedAt),
     dateRange |-> [start |-> DateOf(text.dateRange.start), end |-> DateOf(text.dateRange.end)],
     repositories |-> [i \in 1..Len(text.repositories) |->
                          <<text.repositories[i][1], ParseMetrics(text.repositories[i][2])>>],
     totals |-> ParseMetrics(text.totals)]

\* A file: the text written so far; complete is FALSE while writeTextFile is
\* under way or after it broke off, and such a text does not parse.
FileOf(doc, complete) == [complete |-> complete, text |-> Serialize(doc)]

EmptyFn == [x \in {} |-> 0]
FileAt(fs, k) == IF k \in DOMAIN fs THEN Some(fs[k]) ELSE None
PutFile(fs, k, content) == [x \in DOMAIN fs \cup {k} |-> IF x = k THEN content ELSE fs[x]]
RemoveFile(fs, k) == [x \in DOMAIN fs \ {k} |-> fs[x]]

-----------------------------------------------------------------------------
(* The world outside the program                                           *)

Procs == {"p1", "p2"}

At(day, hour) == day * MsPerDay + hour * (MsPerDay \div 24)
TickStep == MsPerDay \div 2

Condition == "ai"
BlockId(n) == [condition |-> Condition, n |-> n]      \* `${condition}-${n}`
MissingBlockId == BlockId(0)

RepoA == [path |-> <<"/", "a">>, branch |-> None]
RepoB == [path |-> <<"/", "w", "/", "b">>, branch |-> Some("main")]
RepoR == [path |-> <<"o", "/", "r">>, branch |-> None]

Cwd == <<"/", "w">>
ExistingDirs == {<<"/", "a">>, <<"/", "w", "/", "b">>}
AddInputs == {<<"b">>, <<"o", "/", "r">>}
RemoveInputs == {<<"/", "a">>, <<"b">>}
ExtendDays == {0, 7}

\* what `git log --format=%H|%aI` and `git log --numstat` print when they succeed
BasicLogOutputs ==
    {<<[hash |-> "h2", date |-> At(0, 11)], [hash |-> "h1", date |-> At(0, 9)]>>}
LogOutputs == env.logs
NumstatOutputs ==
    {<<[added |-> <<12>>, removed |-> <<3>>, file |-> <<"a", ".", "m", "d">>],
       [added |-> <<5>>, removed |-> <<0>>, file |-> <<"x", ".", "t", "e", "s", "t", ".", "t", "s">>],
       [added |-> <<>>, removed |-> <<>>, file |-> <<"a", ".", "m", "d">>]>>}
GitResults(outs) ==
    {[success |-> FALSE, out |-> <<>>]} \cup {[success |-> TRUE, out |-> o] : o \in outs}

\* the outcomes the outside world may still produce: success always, a
\* failure while the behaviour's failures are not used up
Oks == IF faultsLeft > 0 THEN BOOLEAN ELSE {TRUE}
Spend(ok) == faultsLeft' = IF ok THEN faultsLeft ELSE faultsLeft - 1

\* responses of the hosting API
BasicPageStatuses == {200, 401, 404}
AllPageStatuses == {200, 401, 403, 404, 500}
PageStatuses == env.statuses
PageOutputs ==
    {<<[sha |-> "s2", date |-> At(1, 8)], [sha |-> "s1", date |-> At(0, 10)]>>}

\* The i-th commit, newest first, of a repository with n commits in the
\* window, and the page of them that ?per_page=100&page=k returns
RemoteCommit(n, i) == [sha |-> ToString(n + 1 - i), date |-> At(0, 0) + (n - i)]
PageOf(n, k) ==
    LET from == (k - 1) * PerPage
        upto == IF k * PerPage < n THEN k * PerPage ELSE n
    IN [j \in 1..(upto - from) |-> RemoteCommit(n, from + j)]

\* what GET .../commits?page=k may return with status 200: anything the
\* behaviour allows, or page k of the one history the behaviour fixes
ApiPages(k) ==
    IF IsSome(env.remote) THEN {PageOf(Get(env.remote), k)}
    ELSE PageOutputs \cup {<<>>}

\* what GET /user may answer: a status, or 0 when fetch itself rejects
UserStatuses == {200, 401, 0}

BasicEnv == [logs |-> BasicLogOutputs, remote |-> None, users |-> {200},
            statuses |-> BasicPageStatuses]
DetailResponses ==
    {[ok |-> FALSE, stats |-> None, files |-> None],
     [ok |-> TRUE, stats |-> Some([additions |-> 7, deletions |-> 2]),
      files |-> Some(<<<<"R", "E", "A", "D", "M", "E">>>>)]}

-----------------------------------------------------------------------------
(* Command invocations                                                     *)

CollNew ==
    [st |-> "new", nonzero |-> FALSE, notInside |-> FALSE, error |-> "", log |-> None,
     commits |-> <<>>, page |-> 1, lastLen |-> 0, warned |-> FALSE,
     userFailed |-> FALSE, author |-> None, status |-> 0, missed |-> 0,
     k |-> 0, added |-> 0, removed |-> 0, files |-> {}, result |-> None]

IdleProc ==
    [pc |-> "idle", cmd |-> "", arg |-> <<>>, refresh |-> FALSE, block |-> None, repos |-> <<>>,
     days |-> 0, endDate |-> 0, coll |-> <<>>, order |-> <<>>, repoMetrics |-> <<>>,
     payload |-> None, metrics |-> None, outcome |-> "",
     gitCalls |-> 0, apiCalls |-> 0, writes |-> 0,
     startCache |-> None, computed |-> FALSE]

Running == {p \in Procs : proc[p].pc /= "idle"}

\* one more invocation may start, as process p
CanStart(p) ==
    /\ proc[p].pc = "idle"
    /\ cmdsLeft > 0
    /\ Cardinality(Running) < maxConc
    /\ (p = "p1" \/ proc["p1"].pc /= "idle")

Finished(st) == st \in {"ok", "failed"}

Exit1(pr) == [pr EXCEPT !.pc = "done", !.outcome = "exit1"]

\* lib/state.ts
listBlocksForExperiment ==
    \* sorted by start date, most recent first (file-name order among equals)
    LET ids == DOMAIN blocks
        Before(a, b) == \/ blocks[a].startDate > blocks[b].startDate
                        \/ blocks[a].startDate = blocks[b].startDate /\ a.n < b.n
    IN [i \in 1..Cardinality(ids) |->
          CHOOSE a \in ids : Cardinality({b \in ids : Before(b, a)}) = i - 1]

getCurrentBlockNone == None

\* the first block without an end date, in the order of the listing
getCurrentBlock ==
    LET bs == listBlocksForExperiment
        act == {i \in 1..Len(bs) : blocks[bs[i]].endDate = None}
    IN IF act = {} THEN None
       ELSE Some(blocks[bs[CHOOSE i \in act : \A j \in act : i <= j]])

loadBlock(id) == FileAt(blocks, id)

generateBlockId(condition) ==
    BlockId(Cardinality({b \in DOMAIN blocks : blocks[b].condition = condition}) + 1)

-----------------------------------------------------------------------------
(* devex metrics (commands/metrics.ts) and computeGitMetrics               *)

ShouldReadCacheNever(pr) == FALSE

\* "if (!args.refresh)": the cache is consulted only by a plain request
ShouldReadCache(pr) == ~pr.refresh

StaleRepoMetrics(pr) ==
    IF IsSome(pr.startCache) /\ Get(pr.startCache).complete
    THEN Parse(Get(pr.startCache).text).repositories
    ELSE <<>>

\* "const repoMetrics: Record<string, RepoMetrics> = {}" of computeGitMetrics
FreshRepoMetrics(pr) == <<>>

\* requireExperiment, getConfig, the block lookup and the check for
\* configured repositories, up to the first look at the cache
MetricsBegin(p) ==
    /\ CanStart(p)
    /\ \E refresh \in BOOLEAN,
          barg \in {None} \cup {Some(id) : id \in DOMAIN blocks \cup {MissingBlockId}} :
        LET blk == IF IsSome(barg) THEN loadBlock(Get(barg)) ELSE getCurrentBlock
            base == [IdleProc EXCEPT !.cmd = "metrics", !.refresh = refresh,
                                     !.repos = config]
            found == [base EXCEPT !.block = blk,
                                  !.startCache = FileAt(cache, Get(blk).id)]
        IN proc' = [proc EXCEPT ![p] =
                      IF ~IsSome(blk) THEN Exit1(base)
                      ELSE IF Len(config) = 0 THEN Exit1(found)
                      ELSE [found EXCEPT !.pc = "m_cache"]]
    /\ cmdsLeft' = cmdsLeft - 1
    /\ UNCHANGED <<faultsLeft, now, config, blocks, cache, tmp, fixed>>

\* "Check for cached metrics": readJson of the block's metrics file, and
\* the entry into computeGitMetrics when there is nothing to show yet
MetricsCache(p) ==
    LET pr == proc[p]
        blk == Get(pr.block)
        file == FileAt(cache, blk.id)
    IN /\ pr.pc = "m_cache"
       /\ proc' = [proc EXCEPT ![p] =
            IF ShouldReadCache(pr) /\ IsSome(file)
            THEN IF Get(file).complete
                 THEN [pr EXCEPT !.pc = "done", !.outcome = "ok",
                                 !.metrics = Some(Parse(Get(file).text))]
                 ELSE [pr EXCEPT !.pc = "done", !.outcome = "crash"]
            ELSE [pr EXCEPT !.pc = "m_collect", !.computed = TRUE,
                            !.repoMetrics = FreshRepoMetrics(pr),
                            !.endDate = IF IsSome(blk.endDate) THEN Get(blk.endDate) ELSE now,
                            !.coll = [i \in 1..Len(pr.repos) |-> CollNew]]]
       /\ UNCHANGED <<faultsLeft, now, config, blocks, cache, tmp, cmdsLeft, fixed>>

MayStartRepoEager(pr, i) ==
    /\ pr.coll[i].st = "new"
    /\ \A j \in 1..(i - 1) : pr.coll[j].st /= "new"

\* "for (const repo of repositories) { ... await computeRepoMetrics(...) }":
\* the loop reaches repository i when every earlier one has returned or thrown
MayStartRepo(pr, i) ==
    /\ pr.coll[i].st = "new"
    /\ \A j \in 1..(i - 1) : Finished(pr.coll[j].st)

\* the call is over: its list of commits is dropped, what it counted stays
Done(c, st) == [c EXCEPT !.st = st, !.commits = <<>>]

OnRepoFailureAbort(pr, i, err) ==
    [pr EXCEPT !.coll[i] = Done([pr.coll[i] EXCEPT !.error = err], "failed"),
               !.pc = "done", !.outcome = "exit1"]

OnRepoFailureZeroEntry(pr, i, err) ==
    [pr EXCEPT !.coll[i] = Done([pr.coll[i] EXCEPT !.error = err], "failed"),
               !.repoMetrics = ObjSet(@, pr.repos[i].path, ZeroMetrics)]

OnRepoFailureKeepListed(pr, i, err) ==
    [pr EXCEPT !.coll[i] = Done([pr.coll[i] EXCEPT !.error = err], "failed"),
               !.repoMetrics =
                   IF pr.coll[i].commits = <<>> THEN @
                   ELSE ObjSet(@, pr.repos[i].path,
                               RemoteResult(pr.coll[i].commits, Len(pr.coll[i].commits),
                                            0, 0, {}, Get(pr.block).startDate, pr.endDate))]

\* the catch clause of the loop: warn and go on with the next repository
OnRepoFailure(pr, i, err) ==
    [pr EXCEPT !.coll[i] = Done([pr.coll[i] EXCEPT !.error = err], "failed")]

\* "repoMetrics[repo.path] = await computeRepoMetrics(...)" returning
OnRepoResult(pr, i, result) ==
    [pr EXCEPT !.coll[i] = [Done(pr.coll[i], "ok") EXCEPT !.result = Some(result)],
               !.repoMetrics = ObjSet(@, pr.repos[i].path, result)]

GitCall(pr) == [pr EXCEPT !.gitCalls = @ + 1]
ApiCall(pr) == [pr EXCEPT !.apiCalls = @ + 1]

CheckFailedNever(checkSuccess) == FALSE

\* "if (!checkResult.success) throw" after git rev-parse --is-inside-work-tree
CheckFailed(checkSuccess) == ~checkSuccess

\* computeRepoMetrics: resolve the identifier and make the collector's
\* first call (local: git rev-parse --is-inside-work-tree)
RepoStart(p) ==
    LET pr == proc[p]
    IN /\ pr.pc = "m_collect"
       /\ \E i \in 1..Len(pr.coll) :
            /\ MayStartRepo(pr, i)
            /\ LET started == [pr EXCEPT !.order = Append(@, i)]
               IN IF parseRepoIdentifier(pr.repos[i].path).type = "local"
                  THEN \E inside \in Oks :
                         /\ Spend(inside)
                         /\ proc' = [proc EXCEPT ![p] =
                               LET checked == [GitCall(started) EXCEPT
                                                 !.coll[i].nonzero = ~inside,
                                                 !.coll[i].notInside = ~inside]
                               IN IF CheckFailed(inside)
                                  THEN OnRepoFailure(checked, i, "notrepo")
                                  ELSE [checked EXCEPT !.coll[i].st = "email"]]
                  ELSE /\ proc' = [proc EXCEPT ![p] = [started EXCEPT !.coll[i].st = "user"]]
                       /\ UNCHANGED faultsLeft
       /\ UNCHANGED <<now, config, blocks, cache, tmp, cmdsLeft, fixed>>

\* getGitUserEmail: git config user.email; without an email there is no
\* --author filter.  The listings below are whatever git then prints.
LocalEmail(p) ==
    LET pr == proc[p]
    IN /\ pr.pc = "m_collect"
       /\ \E i \in 1..Len(pr.coll) :
            /\ pr.coll[i].st = "email"
            /\ proc' = [proc EXCEPT ![p] = [GitCall(pr) EXCEPT !.coll[i].st = "log"]]
       /\ UNCHANGED <<faultsLeft, now, config, blocks, cache, tmp, cmdsLeft, fixed>>

\* git log --format=%H|%aI in the window
LocalLog(p) ==
    LET pr == proc[p]
    IN /\ pr.pc = "m_collect"
       /\ \E i \in 1..Len(pr.coll), res \in GitResults(LogOutputs) :
            /\ pr.coll[i].st = "log"
            /\ res.success \in Oks
            /\ Spend(res.success)
            /\ proc' = [proc EXCEPT ![p] =
                 [GitCall(pr) EXCEPT !.coll[i].st = "numstat",
                                     !.coll[i].log = Some(res),
                                     !.coll[i].nonzero = @ \/ ~res.success]]
       /\ UNCHANGED <<now, config, blocks, cache, tmp, cmdsLeft, fixed>>

\* git log --numstat --format= in the window, and the return of the result
LocalNumstat(p) ==
    LET pr == proc[p]
        blk == Get(pr.block)
    IN /\ pr.pc = "m_collect"
       /\ \E i \in 1..Len(pr.coll), res \in GitResults(NumstatOutputs) :
            /\ pr.coll[i].st = "numstat"
            /\ res.success \in Oks
            /\ Spend(res.success)
            /\ proc' = [proc EXCEPT ![p] =
                 OnRepoResult(
                   [GitCall(pr) EXCEPT !.coll[i].nonzero = @ \/ ~res.success],
                   i,
                   LocalResult(Get(pr.coll[i].log), res, blk.startDate, pr.endDate))]
       /\ UNCHANGED <<now, config, blocks, cache, tmp, cmdsLeft, fixed>>

UserCallThrowsOnFailure(status) == status /= 200

\* getGitHubUsername: "if (response.ok) ... return data.login" inside
\* try/catch, "return null" otherwise: the call never throws
UserCallThrows(status) == FALSE

\* the login the call yields: data.login of an OK response, else null
UsernameOf(status) == IF status = 200 THEN Some("u") ELSE None

\* getGitHubUsername: GET /user when a token is set; any failure means no
\* author filter ("&author=" is left out of the listing URL), never an error
RemoteUser(p) ==
    LET pr == proc[p]
    IN /\ pr.pc = "m_collect"
       /\ \E i \in 1..Len(pr.coll) :
            /\ pr.coll[i].st = "user"
            /\ IF token
               THEN \E status \in env.users :
                      /\ (status = 200) \in Oks
                      /\ Spend(status = 200)
                      /\ proc' = [proc EXCEPT ![p] =
                            LET asked == [ApiCall(pr) EXCEPT
                                            !.coll[i].userFailed = status /= 200]
                            IN IF UserCallThrows(status)
                               THEN OnRepoFailure(asked, i, "user")
                               ELSE [asked EXCEPT !.coll[i].st = "page",
                                                  !.coll[i].author = UsernameOf(status)]]
               ELSE /\ proc' = [proc EXCEPT ![p] = [pr EXCEPT !.coll[i].st = "page"]]
                    /\ UNCHANGED faultsLeft
       /\ UNCHANGED <<now, config, blocks, cache, tmp, cmdsLeft, fixed>>

\* the detail loop is over (or was empty): scale, and return the result
RemoteReturn(pr, i, c) ==
    OnRepoResult(pr, i,
        RemoteResult(c.commits, Len(CommitsToFetch(c.commits)), c.added, c.removed,
                     c.files, Get(pr.block).startDate, pr.endDate))

PageErrorGeneric(status) == "api"

\* the three messages thrown for "!commitsResponse.ok"
PageError(status) ==
    IF status = 401 \/ status = 403 THEN "auth"
    ELSE IF status = 404 THEN "notfound"
    ELSE "api"

CapReachedNever(page) == FALSE

\* "page++; if (page > 50)": the safety limit of the listing loop
CapReached(page) == page > MaxPages

\* one round of the "while (true)" listing loop: GET .../commits?page=n
RemotePage(p) ==
    LET pr == proc[p]
    IN /\ pr.pc = "m_collect"
       /\ \E i \in 1..Len(pr.coll), status \in PageStatuses :
          \E data \in IF status = 200 THEN ApiPages(pr.coll[i].page) ELSE {<<>>} :
            /\ pr.coll[i].st = "page"
            /\ (status = 200) \in Oks
            /\ Spend(status = 200)
            /\ LET called == [ApiCall(pr) EXCEPT !.coll[i].status = status]
                   full == ~(Len(data) < PerPage)
                   c == [called.coll[i] EXCEPT !.commits = @ \o data,
                                           !.lastLen = Len(data),
                                           !.warned = full /\ CapReached(pr.coll[i].page + 1)]
                   listed == [called EXCEPT !.coll[i] = c]
                   more == full /\ ~CapReached(c.page + 1)
               IN proc' = [proc EXCEPT ![p] =
                    IF status /= 200 THEN OnRepoFailure(called, i, PageError(status))
                    ELSE IF more THEN [listed EXCEPT !.coll[i].page = @ + 1]
                    ELSE IF CommitsToFetch(c.commits) = <<>> THEN RemoteReturn(listed, i, c)
                    ELSE [listed EXCEPT !.coll[i].st = "detail"]]
       /\ UNCHANGED <<now, config, blocks, cache, tmp, cmdsLeft, fixed>>

\* one round of the detail loop: GET .../commits/{sha}
RemoteDetail(p) ==
    LET pr == proc[p]
    IN /\ pr.pc = "m_collect"
       /\ \E i \in 1..Len(pr.coll), resp \in DetailResponses :
            /\ pr.coll[i].st = "detail"
            /\ resp.ok \in Oks
            /\ Spend(resp.ok)
            /\ LET c0 == pr.coll[i]
                   c == [c0 EXCEPT
                          !.k = @ + 1,
                          !.missed = @ + (IF resp.ok THEN 0 ELSE 1),
                          !.added = @ + (IF resp.ok /\ IsSome(resp.stats)
                                         THEN Get(resp.stats).additions ELSE 0),
                          !.removed = @ + (IF resp.ok /\ IsSome(resp.stats)
                                           THEN Get(resp.stats).deletions ELSE 0),
                          !.files = @ \cup (IF resp.ok /\ IsSome(resp.files)
                                            THEN SeqToSet(Get(resp.files)) ELSE {})]
                   fetched == [ApiCall(pr) EXCEPT !.coll[i] = c]
               IN proc' = [proc EXCEPT ![p] =
                    IF c.k = Len(CommitsToFetch(c.commits))
                    THEN RemoteReturn(fetched, i, c)
                    ELSE fetched]
       /\ UNCHANGED <<now, config, blocks, cache, tmp, cmdsLeft, fixed>>

\* the record computeGitMetrics returns
MetricsDoc(pr, at) ==
    [block |-> Get(pr.block).id,
     computedAt |-> at,
     dateRange |-> [start |-> Get(pr.block).startDate, end |-> pr.endDate],
     repositories |-> pr.repoMetrics,
     totals |-> aggregateRepoMetrics(pr.repoMetrics)]

\* the loop is over: computeGitMetrics returns and writeJson is entered
ComputeReturn(p) ==
    LET pr == proc[p]
    IN /\ pr.pc = "m_collect"
       /\ \A i \in 1..Len(pr.coll) : Finished(pr.coll[i].st)
       /\ proc' = [proc EXCEPT ![p] =
            [pr EXCEPT !.pc = "m_write", !.payload = Some(MetricsDoc(pr, now)),
                      !.writes = @ + 1]]
       /\ UNCHANGED <<faultsLeft, now, config, blocks, cache, tmp, cmdsLeft, fixed>>

WriteTargetDirect(pr) == "path"

\* writeJson writes to `${path}.tmp.${uuid}` first
WriteTarget(pr) == "tmp"

CleanupTargetPath(pr) == "path"

\* "Clean up temp file on error": Deno.remove(tmpPath)
CleanupTarget(pr) == "tmp"

\* the file system after the file named by target ("tmp": this call's
\* temporary file, "path": the metrics file of the block) is written / removed
FsPut(fs, target, p, id, content) ==
    IF target = "tmp"
    THEN [fs EXCEPT !.tmp = PutFile(@, p, content)]
    ELSE [fs EXCEPT !.cache = PutFile(@, id, content)]
FsRemove(fs, target, p, id) ==
    IF target = "tmp"
    THEN [fs EXCEPT !.tmp = RemoveFile(@, p)]
    ELSE [fs EXCEPT !.cache = RemoveFile(@, id)]
FsGet(fs, target, p, id) ==
    IF target = "tmp" THEN FileAt(fs.tmp, p) ELSE FileAt(fs.cache, id)
Fs == [cache |-> cache, tmp |-> tmp]

\* the catch clause of writeJson and the one of run: remove the temporary
\* file, report "Failed to compute metrics", exit 1
WriteFailed(p, pr) ==
    LET fs == FsRemove(Fs, CleanupTarget(pr), p, Get(pr.block).id)
    IN /\ proc' = [proc EXCEPT ![p] = Exit1(pr)]
       /\ cache' = fs.cache
       /\ tmp' = fs.tmp
       /\ faultsLeft' = faultsLeft - 1

\* ensureDir and the start of Deno.writeTextFile(tmpPath, content)
WriteOpen(p) ==
    LET pr == proc[p]
        id == Get(pr.block).id
    IN /\ pr.pc = "m_write"
       /\ \E ok \in Oks :
            IF ok
            THEN LET fs == FsPut(Fs, WriteTarget(pr), p, id, FileOf(Get(pr.payload), FALSE))
                 IN /\ proc' = [proc EXCEPT ![p] = [pr EXCEPT !.pc = "m_writing"]]
                    /\ cache' = fs.cache
                    /\ tmp' = fs.tmp
                    /\ UNCHANGED faultsLeft
            ELSE WriteFailed(p, pr)
       /\ UNCHANGED <<now, config, blocks, cmdsLeft, fixed>>

\* Deno.writeTextFile completes, or breaks off
WriteClose(p) ==
    LET pr == proc[p]
        id == Get(pr.block).id
    IN /\ pr.pc = "m_writing"
       /\ \E ok \in Oks :
            IF ok
            THEN LET fs == FsPut(Fs, WriteTarget(pr), p, id, FileOf(Get(pr.payload), TRUE))
                 IN /\ proc' = [proc EXCEPT ![p] = [pr EXCEPT !.pc = "m_rename"]]
                    /\ cache' = fs.cache
                    /\ tmp' = fs.tmp
                    /\ UNCHANGED faultsLeft
            ELSE WriteFailed(p, pr)
       /\ UNCHANGED <<now, config, blocks, cmdsLeft, fixed>>

\* Deno.rename(tmpPath, path), then "Metrics computed and cached" and the display
WriteRename(p) ==
    LET pr == proc[p]
        id == Get(pr.block).id
        src == FsGet(Fs, WriteTarget(pr), p, id)
    IN /\ pr.pc = "m_rename"
       /\ \E ok \in Oks :
            IF ok /\ IsSome(src)
            THEN LET moved == FsPut(FsRemove(Fs, WriteTarget(pr), p, id), "path", p, id, Get(src))
                 IN /\ proc' = [proc EXCEPT ![p] =
                         [pr EXCEPT !.pc = "done", !.outcome = "ok", !.metrics = pr.payload]]
                    /\ cache' = moved.cache
                    /\ tmp' = moved.tmp
                    /\ UNCHANGED faultsLeft
            ELSE WriteFailed(p, pr)
       /\ UNCHANGED <<now, config, blocks, cmdsLeft, fixed>>

\* the process ends
Exit(p) ==
    /\ proc[p].pc = "done"
    /\ proc' = [proc EXCEPT ![p] = IdleProc]
    /\ UNCHANGED <<faultsLeft, now, config, blocks, cache, tmp, cmdsLeft, fixed>>

-----------------------------------------------------------------------------
(* devex block start | end | extend (commands/block.ts)                    *)

Conditions == {Condition}          \* experiment.conditions
ConditionArgs == {Condition, "zz"}
DefaultBlockDuration == 14         \* config.defaults.blockDuration

\* blockStart up to the validation of the condition
BlockStartBegin(p) ==
    /\ CanStart(p)
    /\ \E cond \in ConditionArgs :
         proc' = [proc EXCEPT ![p] =
            LET base == [IdleProc EXCEPT !.cmd = "blockStart"]
            IN IF IsSome(getCurrentBlock)
               THEN Exit1([base EXCEPT !.block = getCurrentBlock])
               ELSE IF cond \notin Conditions
               THEN Exit1(base)
               ELSE [base EXCEPT !.pc = "bs_gen",
                                 !.block = Some([id |-> MissingBlockId, condition |-> cond,
                                                 startDate |-> 0, endDate |-> None,
                                                 expectedDuration |-> DefaultBlockDuration])]]
    /\ cmdsLeft' = cmdsLeft - 1
    /\ UNCHANGED <<faultsLeft, now, config, blocks, cache, tmp, fixed>>

\* generateBlockId and the new Block record
BlockStartGen(p) ==
    LET pr == proc[p]
    IN /\ pr.pc = "bs_gen"
       /\ proc' = [proc EXCEPT ![p] =
            [pr EXCEPT !.pc = "bs_write",
                       !.block = Some([Get(pr.block) EXCEPT
                                         !.id = generateBlockId(Get(pr.block).condition),
                                         !.startDate = now])]]
       /\ UNCHANGED <<faultsLeft, now, config, blocks, cache, tmp, cmdsLeft, fixed>>

\* writeJson(blockPath, block) of blockStart, blockEnd and blockExtend
BlockWrite(p) ==
    LET pr == proc[p]
    IN /\ pr.pc \in {"bs_write", "bx_write"}
       /\ blocks' = PutFile(blocks, Get(pr.block).id, Get(pr.block))
       /\ proc' = [proc EXCEPT ![p] = [pr EXCEPT !.pc = "done", !.outcome = "ok"]]
       /\ UNCHANGED <<faultsLeft, now, config, cache, tmp, cmdsLeft, fixed>>

\* blockEnd up to the summary prompts
BlockEndBegin(p) ==
    /\ CanStart(p)
    /\ proc' = [proc EXCEPT ![p] =
         LET base == [IdleProc EXCEPT !.cmd = "blockEnd"]
         IN IF IsSome(getCurrentBlock)
            THEN [base EXCEPT !.pc = "be_write", !.block = getCurrentBlock]
            ELSE Exit1(base)]
    /\ cmdsLeft' = cmdsLeft - 1
    /\ UNCHANGED <<faultsLeft, now, config, blocks, cache, tmp, fixed>>

\* "block.endDate = new Date()" and the save
BlockEndWrite(p) ==
    LET pr == proc[p]
        blk == [Get(pr.block) EXCEPT !.endDate = Some(now)]
    IN /\ pr.pc = "be_write"
       /\ blocks' = PutFile(blocks, blk.id, blk)
       /\ proc' = [proc EXCEPT ![p] =
            [pr EXCEPT !.pc = "done", !.outcome = "ok", !.block = Some(blk)]]
       /\ UNCHANGED <<faultsLeft, now, config, cache, tmp, cmdsLeft, fixed>>

\* blockExtend up to the save
BlockExtendBegin(p) ==
    /\ CanStart(p)
    /\ \E days \in ExtendDays :
         proc' = [proc EXCEPT ![p] =
            LET base == [IdleProc EXCEPT !.cmd = "blockExtend"]
            IN IF ~IsSome(getCurrentBlock) \/ days <= 0
               THEN Exit1(base)
               ELSE [base EXCEPT !.pc = "bx_write",
                                 !.block = Some([Get(getCurrentBlock) EXCEPT
                                                   !.expectedDuration = @ + days])]]
    /\ cmdsLeft' = cmdsLeft - 1
    /\ UNCHANGED <<faultsLeft, now, config, blocks, cache, tmp, fixed>>

-----------------------------------------------------------------------------
(* devex config add repos | remove repos (commands/config.ts)              *)

\* resolve(Deno.cwd(), path) for a path without "." or ".." segments
ResolvePath(path) == IF StartsWith(path, <<"/">>) THEN path ELSE Cwd \o <<"/">> \o path

RepoIndex(repos, path) ==
    IF \E i \in 1..Len(repos) : repos[i].path = path
    THEN CHOOSE i \in 1..Len(repos) :
            repos[i].path = path /\ \A j \in 1..(i - 1) : repos[j].path /= path
    ELSE 0

\* lib/config.ts addRepository
addRepository(repos, path, branch) ==
    LET k == RepoIndex(repos, path)
    IN IF k > 0
       THEN IF IsSome(branch) THEN [repos EXCEPT ![k].branch = branch] ELSE repos
       ELSE Append(repos, [path |-> path, branch |-> branch])

\* lib/config.ts removeRepository
removeRepository(repos, path) ==
    LET k == RepoIndex(repos, path)
    IN IF k > 0
       THEN SubSeq(repos, 1, k - 1) \o SubSeq(repos, k + 1, Len(repos))
       ELSE repos

ConfigAdd(p) ==
    /\ CanStart(p)
    /\ \E path \in AddInputs :
         LET absolutePath == ResolvePath(path)
             exists == absolutePath \in ExistingDirs
         IN /\ config' = IF exists THEN addRepository(config, absolutePath, None) ELSE config
            /\ proc' = [proc EXCEPT ![p] =
                 [IdleProc EXCEPT !.cmd = "configAdd", !.pc = "done", !.arg = path,
                                  !.outcome = IF exists THEN "ok" ELSE "exit1"]]
    /\ cmdsLeft' = cmdsLeft - 1
    /\ UNCHANGED <<faultsLeft, now, blocks, cache, tmp, fixed>>

ConfigRemove(p) ==
    /\ CanStart(p)
    /\ \E path \in RemoveInputs :
         LET absolutePath == ResolvePath(path)
             matchByPath == RepoIndex(config, path) > 0
             matchByAbsolute == RepoIndex(config, absolutePath) > 0
         IN /\ config' = IF matchByPath THEN removeRepository(config, path)
                         ELSE IF matchByAbsolute THEN removeRepository(config, absolutePath)
                         ELSE config
            /\ proc' = [proc EXCEPT ![p] =
                 [IdleProc EXCEPT !.cmd = "configRemove", !.pc = "done",
                                  !.outcome = IF matchByPath \/ matchByAbsolute
                                              THEN "ok" ELSE "exit1"]]
    /\ cmdsLeft' = cmdsLeft - 1
    /\ UNCHANGED <<faultsLeft, now, blocks, cache, tmp, fixed>>

-----------------------------------------------------------------------------
(* The clock, and the system                                               *)

\* time passes between commands; a command runs within one clock step
Tick ==
    /\ Running = {}
    /\ now < MaxTicks * TickStep
    /\ now' = now + TickStep
    /\ UNCHANGED <<faultsLeft, config, blocks, cache, tmp, proc, cmdsLeft, fixed>>

InitConfigs == {<<RepoA, RepoR>>, <<RepoR, RepoA>>}

InitBlock ==
    [id |-> BlockId(1), condition |-> Condition, startDate |-> 0, endDate |-> None,
     expectedDuration |-> DefaultBlockDuration]

\* an experiment with one active block and nothing computed yet
InitCommon ==
    /\ blocks = PutFile(EmptyFn, BlockId(1), InitBlock)
    /\ cache = EmptyFn
    /\ tmp = EmptyFn
    /\ proc = [p \in Procs |-> IdleProc]
    /\ token \in BOOLEAN
    /\ aggIn = <<>>
    /\ aggOut = None
    /\ idIn = <<>>
    /\ idOut = None

\* commands run one at a time
Init ==
    /\ InitCommon
    /\ env = BasicEnv
    /\ now = 0
    /\ config \in InitConfigs
    /\ maxConc = 1
    /\ cmdsLeft = MaxCmds
    /\ faultsLeft = MaxFaults

Next ==
    \/ Tick
    \/ \E p \in Procs :
         \/ MetricsBegin(p) \/ MetricsCache(p) \/ RepoStart(p)
         \/ LocalEmail(p) \/ LocalLog(p) \/ LocalNumstat(p)
         \/ RemoteUser(p) \/ RemotePage(p) \/ RemoteDetail(p)
         \/ ComputeReturn(p) \/ WriteOpen(p) \/ WriteClose(p) \/ WriteRename(p)
         \/ BlockStartBegin(p) \/ BlockStartGen(p) \/ BlockWrite(p)
         \/ BlockEndBegin(p) \/ BlockEndWrite(p) \/ BlockExtendBegin(p)
         \/ ConfigAdd(p) \/ ConfigRemove(p)
         \/ Exit(p)

Spec == Init /\ [][Next]_vars

-----------------------------------------------------------------------------
(* One batch: a single `devex metrics` run over two or three repositories, *)
(* a day and a half into the block                                         *)

BatchConfigs ==
    {<<RepoA, RepoR>>, <<RepoR, RepoA>>, <<RepoA, RepoB, RepoR>>, <<RepoR, RepoB, RepoA>>}

InitBatch ==
    /\ InitCommon
    /\ env = BasicEnv
    /\ now = 3 * TickStep
    /\ config \in BatchConfigs
    /\ maxConc = 1
    /\ cmdsLeft = 1
    /\ faultsLeft = MaxBatchFaults

NextMetrics ==
    \E p \in Procs :
       \/ MetricsBegin(p) \/ MetricsCache(p) \/ RepoStart(p)
       \/ LocalEmail(p) \/ LocalLog(p) \/ LocalNumstat(p)
       \/ RemoteUser(p) \/ RemotePage(p) \/ RemoteDetail(p)
       \/ ComputeReturn(p) \/ WriteOpen(p) \/ WriteClose(p) \/ WriteRename(p)
       \/ Exit(p)

SpecBatch == InitBatch /\ [][NextMetrics]_vars

-----------------------------------------------------------------------------
(* Two `devex metrics` runs at the same time                               *)

InitConc ==
    /\ InitCommon
    /\ env = BasicEnv
    /\ now = TickStep
    /\ config \in InitConfigs
    /\ maxConc = 2
    /\ cmdsLeft = 2
    /\ faultsLeft = MaxFaults

SpecConc == InitConc /\ [][NextMetrics]_vars

-----------------------------------------------------------------------------
(* One `devex metrics` run at several points of the block, over            *)
(* repositories whose history spans several days                           *)

\* git log prints newest first by commit date; %aI is the author date, which
\* need not follow that order
RichLogOutputs ==
    {<<>>,
     <<[hash |-> "h3", date |-> At(1, 8)], [hash |-> "h2", date |-> At(0, 11)],
       [hash |-> "h1", date |-> At(0, 9)]>>,
     <<[hash |-> "h3", date |-> At(0, 9)], [hash |-> "h2", date |-> At(1, 8)],
       [hash |-> "h1", date |-> At(0, 11)]>>}

InitCollect ==
    /\ InitCommon
    /\ env = [logs |-> RichLogOutputs, remote |-> None, users |-> {200},
            statuses |-> BasicPageStatuses]
    /\ now \in {k * TickStep : k \in 0..3}
    /\ config \in InitConfigs
    /\ maxConc = 1
    /\ cmdsLeft = 1
    /\ faultsLeft = MaxFaults

SpecCollect == InitCollect /\ [][NextMetrics]_vars

-----------------------------------------------------------------------------
(* One `devex metrics` run over a remote repository of a given size        *)

\* commits the hosting API has for the window: none, few, around the sample
\* limit, one full page, and up to beyond the cap of the listing loop
RemoteTotals ==
    {0, 2, SampleLimit, SampleLimit + 1, SampleLimit + 5, PerPage,
     PerPage * MaxPages, PerPage * MaxPages + SampleLimit + 5}

InitRemote ==
    /\ InitCommon
    /\ env \in {[logs |-> BasicLogOutputs, remote |-> Some(n), users |-> UserStatuses,
                  statuses |-> AllPageStatuses] :
                  n \in RemoteTotals}
    /\ now = TickStep
    /\ config = <<RepoR, RepoA>>
    /\ maxConc = 1
    /\ cmdsLeft = 1
    /\ faultsLeft = MaxRemoteFaults

SpecRemote == InitRemote /\ [][NextMetrics]_vars

-----------------------------------------------------------------------------
(* Block commands on their own, two of them at a time                      *)

MaxBlockCmds == 3

EndedBlock == [InitBlock EXCEPT !.endDate = Some(0)]

\* an experiment whose one block is active, or has been ended
InitBlocks ==
    /\ blocks \in {PutFile(EmptyFn, BlockId(1), b) : b \in {InitBlock, EndedBlock}}
    /\ cache = EmptyFn
    /\ tmp = EmptyFn
    /\ proc = [p \in Procs |-> IdleProc]
    /\ token = FALSE
    /\ aggIn = <<>>
    /\ aggOut = None
    /\ idIn = <<>>
    /\ idOut = None
    /\ env = BasicEnv
    /\ now = 0
    /\ config = <<RepoA>>
    /\ maxConc = 2
    /\ cmdsLeft = MaxBlockCmds
    /\ faultsLeft = 0

NextBlocks ==
    \/ Tick
    \/ \E p \in Procs :
         \/ BlockStartBegin(p) \/ BlockStartGen(p) \/ BlockWrite(p)
         \/ BlockEndBegin(p) \/ BlockEndWrite(p) \/ BlockExtendBegin(p)
         \/ Exit(p)

SpecBlocks == InitBlocks /\ [][NextBlocks]_vars

-----------------------------------------------------------------------------
(* The resolver on its own: parseRepoIdentifier applied to one string      *)

\* the strings tried: lead \o scheme \o www \o host \o tail
IdLeads ==
    {<<>>, <<"/">>, <<"~", "/">>, <<".", "/">>, <<".", ".", "/">>, <<"x">>, <<"a", "/">>}
IdSchemes ==
    {<<>>, <<"h","t","t","p",":","/","/">>, <<"h","t","t","p","s",":","/","/">>}
IdWww == {<<>>, <<"w","w","w",".">>}
IdHosts == {<<>>, GithubHost}
IdTails ==
    {<<>>, <<"r">>, <<"o", "/">>, <<"o", "/", "r">>, <<"o", "/", "r">> \o DotGit,
     <<"o", "/", "r", "/", "s">>, <<"o", "-", "1", "/", "r", "_", "2">>}
RepoStrings ==
    {l \o sc \o w \o h \o t :
        l \in IdLeads, sc \in IdSchemes, w \in IdWww, h \in IdHosts, t \in IdTails}

InitParse ==
    /\ blocks = PutFile(EmptyFn, BlockId(1), InitBlock)
    /\ cache = EmptyFn
    /\ tmp = EmptyFn
    /\ proc = [p \in Procs |-> IdleProc]
    /\ token = FALSE
    /\ aggIn = <<>>
    /\ aggOut = None
    /\ idIn \in RepoStrings
    /\ idOut = None
    /\ env = BasicEnv
    /\ now = 0
    /\ config = <<>>
    /\ maxConc = 1
    /\ cmdsLeft = 0
    /\ faultsLeft = 0

\* const id = parseRepoIdentifier(repo.path)
ParseRun ==
    /\ idOut = None
    /\ idOut' = Some(parseRepoIdentifier(idIn))
    /\ UNCHANGED <<now, config, blocks, cache, tmp, proc, cmdsLeft, faultsLeft, maxConc, token,
                   aggIn, aggOut, idIn, env>>

SpecParse == InitParse /\ [][ParseRun]_vars

-----------------------------------------------------------------------------
(* devex report and devex compare (commands/report.ts, compare.ts), run    *)
(* before and after `devex metrics`                                        *)

MaxReadCmds == 2

CacheAfterReadDropsFile(fs, id) == RemoveFile(fs, id)

\* the metrics files after "readJson<GitMetrics>(metricsPath)": as before
CacheAfterRead(fs, id) == fs

\* the value readJson returns for the block's metrics file
GitMetricsRead(pr, id) ==
    LET file == FileAt(cache, id)
    IN IF ~IsSome(file) THEN [pr EXCEPT !.metrics = None]
       ELSE IF Get(file).complete THEN [pr EXCEPT !.metrics = Some(Parse(Get(file).text))]
       ELSE [pr EXCEPT !.pc = "done", !.outcome = "crash"]

\* report up to the block lookup
ReportBegin(p) ==
    /\ CanStart(p)
    /\ \E barg \in {None} \cup {Some(id) : id \in DOMAIN blocks \cup {MissingBlockId}} :
        LET blk == IF IsSome(barg) THEN loadBlock(Get(barg)) ELSE getCurrentBlock
            base == [IdleProc EXCEPT !.cmd = "report"]
        IN proc' = [proc EXCEPT ![p] =
                      IF ~IsSome(blk) THEN Exit1(base)
                      ELSE [base EXCEPT !.pc = "r_read", !.block = blk]]
    /\ cmdsLeft' = cmdsLeft - 1
    /\ UNCHANGED <<faultsLeft, now, config, blocks, cache, tmp, fixed>>

\* "Load cached git metrics if available", and the display
ReportRead(p) ==
    LET pr == proc[p]
        id == Get(pr.block).id
        read == GitMetricsRead(pr, id)
    IN /\ pr.pc = "r_read"
       /\ cache' = CacheAfterRead(cache, id)
       /\ proc' = [proc EXCEPT ![p] =
            IF read.pc = "done" THEN read
            ELSE [read EXCEPT !.pc = "done", !.outcome = "ok"]]
       /\ UNCHANGED <<faultsLeft, now, config, blocks, tmp, cmdsLeft, fixed>>

\* the block ids given to compare: one (too few) or two
CompareArgs ==
    LET ids == DOMAIN blocks \cup {MissingBlockId}
    IN {<<a>> : a \in ids} \cup {<<a, b>> : a \in ids, b \in ids}

\* compare up to "args.blocks.length < 2"
CompareBegin(p) ==
    /\ CanStart(p)
    /\ \E ids \in CompareArgs :
        LET base == [IdleProc EXCEPT !.cmd = "compare", !.arg = ids]
        IN proc' = [proc EXCEPT ![p] =
                      IF Len(ids) < 2 THEN Exit1(base) ELSE [base EXCEPT !.pc = "c_load"]]
    /\ cmdsLeft' = cmdsLeft - 1
    /\ UNCHANGED <<faultsLeft, now, config, blocks, cache, tmp, fixed>>

\* one round of "for (const blockId of args.blocks.slice(0, 2))"
CompareLoad(p) ==
    LET pr == proc[p]
        k == Len(pr.order) + 1
        id == pr.arg[k]
        blk == loadBlock(id)
        read == GitMetricsRead([pr EXCEPT !.block = blk, !.order = Append(@, k)], id)
    IN /\ pr.pc = "c_load"
       /\ cache' = IF IsSome(blk) THEN CacheAfterRead(cache, id) ELSE cache
       /\ proc' = [proc EXCEPT ![p] =
            IF ~IsSome(blk) THEN Exit1(pr)
            ELSE IF read.pc = "done" THEN read
            ELSE IF k = 2 THEN [read EXCEPT !.pc = "done", !.outcome = "ok"]
            ELSE read]
       /\ UNCHANGED <<faultsLeft, now, config, blocks, tmp, cmdsLeft, fixed>>

\* an experiment with an ended block and an active one, nothing computed yet
InitRead ==
    /\ blocks = PutFile(PutFile(EmptyFn, BlockId(1), EndedBlock), BlockId(2),
                        [InitBlock EXCEPT !.id = BlockId(2)])
    /\ cache = EmptyFn
    /\ tmp = EmptyFn
    /\ proc = [p \in Procs |-> IdleProc]
    /\ token = FALSE
    /\ aggIn = <<>>
    /\ aggOut = None
    /\ idIn = <<>>
    /\ idOut = None
    /\ env = BasicEnv
    /\ now = TickStep
    /\ config = <<RepoA, RepoR>>
    /\ maxConc = 1
    /\ cmdsLeft = MaxReadCmds
    /\ faultsLeft = 0

NextRead ==
    \E p \in Procs :
       \/ MetricsBegin(p) \/ MetricsCache(p) \/ RepoStart(p)
       \/ LocalEmail(p) \/ LocalLog(p) \/ LocalNumstat(p)
       \/ RemoteUser(p) \/ RemotePage(p) \/ RemoteDetail(p)
       \/ ComputeReturn(p) \/ WriteOpen(p) \/ WriteClose(p) \/ WriteRename(p)
       \/ ReportBegin(p) \/ ReportRead(p) \/ CompareBegin(p) \/ CompareLoad(p)
       \/ Exit(p)

SpecRead == InitRead /\ [][NextRead]_vars

-----------------------------------------------------------------------------
(* The aggregator on its own: entries are put into a Record<string,        *)
(* RepoMetrics> in any order, then aggregateRepoMetrics is applied         *)

AggKeys == {<<"r", i>> : i \in 1..MaxAggRepos}

MetricsSamples ==
    {[commits |-> 10, linesAdded |-> 100, linesRemoved |-> 50, filesChanged |-> 5,
      testFilesChanged |-> 2, docFilesChanged |-> 1, avgCommitsPerDay |-> Rat(2, 1),
      firstCommitTimes |-> <<At(15, 9), At(16, 10)>>],
     [commits |-> 5, linesAdded |-> 200, linesRemoved |-> 25, filesChanged |-> 10,
      testFilesChanged |-> 3, docFilesChanged |-> 2, avgCommitsPerDay |-> Rat(5, 3),
      firstCommitTimes |-> <<At(15, 11)>>],
     [commits |-> 1, linesAdded |-> 0, linesRemoved |-> 7, filesChanged |-> 1,
      testFilesChanged |-> 0, docFilesChanged |-> 1, avgCommitsPerDay |-> Rat(1, 2),
      firstCommitTimes |-> <<At(17, 9), At(15, 8), At(16, 9)>>],
     ZeroMetrics}

InitAgg ==
    /\ InitCommon
    /\ env = BasicEnv
    /\ now = 0
    /\ config = <<>>
    /\ maxConc = 1
    /\ cmdsLeft = 0
    /\ faultsLeft = 0

\* repos[key] = metrics
AggPut ==
    /\ \E k \in AggKeys, m \in MetricsSamples : aggIn' = ObjSet(aggIn, k, m)
    /\ aggOut' = None
    /\ UNCHANGED <<now, config, blocks, cache, tmp, proc, cmdsLeft, faultsLeft, maxConc, token,
                   idIn, idOut, env>>

\* totals = aggregateRepoMetrics(repos)
AggRun ==
    /\ aggOut' = Some(aggregateRepoMetrics(aggIn))
    /\ UNCHANGED <<now, config, blocks, cache, tmp, proc, cmdsLeft, faultsLeft, maxConc, token,
                   aggIn, idIn, idOut, env>>

NextAgg == AggPut \/ AggRun

SpecAgg == InitAgg /\ [][NextAgg]_vars

-----------------------------------------------------------------------------
(* Properties                                                              *)

CountFields ==
    {"commits", "linesAdded", "linesRemoved", "filesChanged", "testFilesChanged",
     "docFilesChanged"}

RECURSIVE SumOver(_, _, _)
\* the sum of F[x][field] over the elements x of a finite set
SumOver(S, F, field) ==
    IF S = {} THEN 0
    ELSE LET x == CHOOSE y \in S : TRUE
         IN F[x][field] + SumOver(S \ {x}, F, field)

RECURSIVE ProductOver(_, _)
ProductOver(S, F) ==
    IF S = {} THEN 1
    ELSE LET x == CHOOSE y \in S : TRUE IN F[x] * ProductOver(S \ {x}, F)

Iota(n) == [i \in 1..n |-> i]
OkRepos(pr) == {i \in 1..Len(pr.coll) : pr.coll[i].st = "ok"}
FailedRepos(pr) == {i \in 1..Len(pr.coll) : pr.coll[i].st = "failed"}
InProgress(pr) == {i \in 1..Len(pr.coll) : pr.coll[i].st \notin {"new", "ok", "failed"}}
PastCollection(pr) ==
    pr.cmd = "metrics" /\ pr.computed /\ pr.pc \in {"m_write", "m_writing", "m_rename", "done"}

\* C1: a plain (non-refresh) `devex metrics` for a block whose metrics file
\* exists makes no git invocation and no API call, does not compute and does
\* not write, leaves the file as it was, and shows the cached document.
C1_PlainComputeUsesCache ==
    \A p \in Procs :
        LET pr == proc[p]
        IN (pr.cmd = "metrics" /\ ~pr.refresh /\ IsSome(pr.startCache)) =>
              /\ pr.gitCalls = 0 /\ pr.apiCalls = 0 /\ pr.writes = 0
              /\ ~pr.computed
              /\ FileAt(cache, Get(pr.block).id) = pr.startCache
              /\ (pr.pc = "done" /\ Len(pr.repos) > 0) =>
                    /\ pr.outcome = "ok"
                    /\ pr.metrics = Some(Parse(Get(pr.startCache).text))

C1_Witness ==
    \E p \in Procs :
        /\ proc[p].cmd = "metrics" /\ ~proc[p].refresh /\ proc[p].pc = "done"
        /\ IsSome(proc[p].startCache)
        /\ IsSome(proc[p].metrics)
        /\ Get(proc[p].metrics).totals.commits > 0

\* C2: a `devex metrics --refresh` collects every configured repository
\* again, and when it completes the metrics file is exactly the new document:
\* its repositories are those collected successfully in this run, with this
\* run's values, whatever the previous document held.
C2_RefreshReplacesWholeDocument ==
    \A p \in Procs :
        LET pr == proc[p]
            id == Get(pr.block).id
        IN (pr.cmd = "metrics" /\ pr.refresh /\ pr.pc = "done"
            /\ IsSome(pr.block) /\ Len(pr.repos) > 0) =>
              /\ pr.computed
              /\ pr.repos = config
              /\ pr.order = Iota(Len(pr.repos))
              /\ pr.outcome = "ok" =>
                    /\ FileAt(cache, id) = Some(FileOf(Get(pr.payload), TRUE))
                    /\ pr.metrics = pr.payload
                    /\ LET doc == Parse(cache[id].text)
                       IN /\ doc.computedAt = now
                          /\ ObjKeySet(doc.repositories) =
                                {pr.repos[i].path : i \in OkRepos(pr)}
                          /\ \A i \in OkRepos(pr) :
                                ObjGet(doc.repositories, pr.repos[i].path) =
                                    Get(pr.coll[i].result)
                          /\ doc.totals = aggregateRepoMetrics(doc.repositories)

C2_Witness ==
    \E p \in Procs :
        /\ proc[p].cmd = "metrics" /\ proc[p].refresh /\ proc[p].pc = "done"
        /\ proc[p].outcome = "ok"
        /\ IsSome(proc[p].startCache)
        /\ FailedRepos(proc[p]) /= {}
        /\ \E i \in FailedRepos(proc[p]) :
              ObjHas(Parse(Get(proc[p].startCache).text).repositories, proc[p].repos[i].path)

\* C3: a metrics file that exists keeps existing, and its content changes only
\* in the step in which a `devex metrics --refresh` for that block completes
\* its write; this under plain and refresh runs (also with failing
\* repositories and failing writes), block start / end / extend and
\* config add / remove, run one after the other.
C3_CachedStaysCached ==
    [][\A id \in DOMAIN cache :
          /\ id \in DOMAIN cache'
          /\ cache'[id] /= cache[id] =>
                \E p \in Procs :
                    /\ proc[p].cmd = "metrics" /\ proc[p].refresh
                    /\ Get(proc[p].block).id = id
                    /\ proc[p].pc = "m_rename" /\ proc'[p].outcome = "ok"]_vars

C3_Witness ==
    \E p \in Procs :
        /\ proc[p].cmd = "blockExtend" /\ proc[p].pc = "done" /\ proc[p].outcome = "ok"
        /\ Get(proc[p].block).id \in DOMAIN cache
        /\ Get(proc[p].block).expectedDuration > DefaultBlockDuration

\* C4: in a batch, every configured repository is attempted exactly once and
\* in spite of failures of earlier ones, and the batch produces a document.
C4_FailureDoesNotAbortBatch ==
    \A p \in Procs :
        LET pr == proc[p]
        IN /\ Cardinality(SeqToSet(pr.order)) = Len(pr.order)
           /\ PastCollection(pr) =>
                 /\ SeqToSet(pr.order) = 1..Len(pr.repos)
                 /\ \A i \in 1..Len(pr.repos) : Finished(pr.coll[i].st)
                 /\ IsSome(pr.payload)

C4_Witness ==
    \E p \in Procs :
        /\ PastCollection(proc[p])
        /\ Len(proc[p].repos) >= 3
        /\ proc[p].coll[1].st = "failed"
        /\ proc[p].coll[2].st = "failed"
        /\ proc[p].coll[3].st = "ok"

\* C5: the document of a batch has an entry for exactly the repositories
\* whose collection returned (none for one that threw), each entry is what
\* that collection returned, and the summed totals are sums over those only.
C5_DocumentHoldsSuccessfulReposOnly ==
    \A p \in Procs :
        LET pr == proc[p]
        IN IsSome(pr.payload) =>
              LET doc == Get(pr.payload)
                  res == [i \in OkRepos(pr) |-> Get(pr.coll[i].result)]
              IN /\ ObjKeySet(doc.repositories) = {pr.repos[i].path : i \in OkRepos(pr)}
                 /\ Len(doc.repositories) = Cardinality(OkRepos(pr))
                 /\ \A i \in FailedRepos(pr) : ~ObjHas(doc.repositories, pr.repos[i].path)
                 /\ \A i \in OkRepos(pr) :
                       ObjGet(doc.repositories, pr.repos[i].path) = res[i]
                 /\ \A f \in CountFields : doc.totals[f] = SumOver(OkRepos(pr), res, f)

C5_Witness ==
    \E p \in Procs :
        /\ IsSome(proc[p].payload)
        /\ FailedRepos(proc[p]) /= {}
        /\ Cardinality(OkRepos(proc[p])) >= 2
        /\ Get(proc[p].payload).totals.commits > 2

\* C6: a repository for which a git invocation of the local collector (the
\* working-tree check, the commit listing or the numstat listing) exited
\* non-zero has no entry in the document of the batch.
C6_NonZeroExitOmitsRepository ==
    \A p \in Procs :
        LET pr == proc[p]
        IN IsSome(pr.payload) =>
              \A i \in 1..Len(pr.coll) :
                  pr.coll[i].nonzero =>
                      ~ObjHas(Get(pr.payload).repositories, pr.repos[i].path)

\* C7: whatever two concurrent runs and failing writes do, a metrics file
\* that a reader can see is a complete document for that block, the whole
\* payload of one writeJson call.
C7_CacheFileIsAlwaysWhole ==
    \A id \in DOMAIN cache :
        /\ cache[id].complete
        /\ LET doc == Parse(cache[id].text)
           IN /\ doc.block = id
              /\ doc.totals = aggregateRepoMetrics(doc.repositories)
              /\ Serialize(doc) = cache[id].text

C7_Witness ==
    /\ BlockId(1) \in DOMAIN cache
    /\ \E p \in Procs, q \in Procs :
          /\ proc[p].pc = "m_writing"
          /\ p \in DOMAIN tmp
          /\ ~tmp[p].complete
          /\ tmp[p].text /= cache[BlockId(1)].text
          /\ proc[q].pc = "done" /\ proc[q].outcome = "ok" /\ proc[q].writes = 1

\* C8: collection is sequential and in configuration order: a repository is
\* started only when all earlier ones have finished or failed, so at most one
\* is in progress.
C8_CollectionIsSequential ==
    \A p \in Procs :
        LET pr == proc[p]
        IN /\ pr.order = Iota(Len(pr.order))
           /\ Cardinality(InProgress(pr)) <= 1
           /\ \A i \in 1..Len(pr.coll) :
                 pr.coll[i].st /= "new" =>
                     \A j \in 1..(i - 1) : Finished(pr.coll[j].st)

C8_Witness ==
    \E p \in Procs :
        /\ Len(proc[p].coll) >= 3
        /\ proc[p].coll[1].st = "failed"
        /\ proc[p].coll[2].st = "numstat"
        /\ proc[p].coll[3].st = "new"

AggValues == [k \in ObjKeySet(aggIn) |-> ObjGet(aggIn, k)]

\* C9: each of totals.commits, linesAdded, linesRemoved, filesChanged,
\* testFilesChanged and docFilesChanged is the sum of that field over the
\* entries, in whatever order the entries were put.
C9_TotalsAreSums ==
    IsSome(aggOut) =>
        \A f \in CountFields :
            Get(aggOut)[f] = SumOver(ObjKeySet(aggIn), AggValues, f)

C9_Witness ==
    /\ IsSome(aggOut)
    /\ Len(aggIn) = 3
    /\ ObjKeys(aggIn) = << <<"r", 3>>, <<"r", 1>>, <<"r", 2>> >>
    /\ Get(aggOut).commits = 16
    /\ Get(aggOut).linesRemoved = 82

\* C10: totals.avgCommitsPerDay times the number of entries is the sum of
\* the entries' avgCommitsPerDay (so it is their mean), and it is 0 when
\* there is no entry.
C10_AvgIsMean ==
    IsSome(aggOut) =>
        LET keys == ObjKeySet(aggIn)
            avg == Get(aggOut).avgCommitsPerDay
            dens == [k \in keys |-> AggValues[k].avgCommitsPerDay.d]
            common == ProductOver(keys, dens)
            scaled == [k \in keys |->
                         [v |-> AggValues[k].avgCommitsPerDay.n * (common \div dens[k])]]
        IN IF keys = {} THEN avg = RatZero
           ELSE /\ avg.d > 0
                /\ avg.n * Cardinality(keys) * common = avg.d * SumOver(keys, scaled, "v")

C10_Witness ==
    /\ IsSome(aggOut)
    /\ Len(aggIn) = 3
    /\ Get(aggOut).avgCommitsPerDay = Rat(25, 18)

ClaimDay(t) == t \div MsPerDay
AggTimes ==
    UNION {SeqToSet(AggValues[k].firstCommitTimes) : k \in ObjKeySet(aggIn)}

\* C11: the aggregated firstCommitTimes holds, for every (UTC) calendar day
\* on which some entry reports a timestamp, exactly one timestamp, the
\* earliest any entry reports for that day, and nothing else.
C11_OneEarliestTimestampPerDay ==
    IsSome(aggOut) =>
        LET out == Get(aggOut).firstCommitTimes
        IN /\ \A t \in AggTimes :
                 /\ Cardinality({i \in 1..Len(out) : ClaimDay(out[i]) = ClaimDay(t)}) = 1
                 /\ \E i \in 1..Len(out) : ClaimDay(out[i]) = ClaimDay(t) /\ out[i] <= t
           /\ SeqToSet(out) \subseteq AggTimes

C11_Witness ==
    /\ IsSome(aggOut)
    /\ Len(aggIn) = 2
    /\ aggIn[1][2].firstCommitTimes = <<At(15, 9), At(16, 10)>>
    /\ aggIn[2][2].firstCommitTimes = <<At(15, 11)>>
    /\ Get(aggOut).firstCommitTimes = <<At(15, 9), At(16, 10)>>

IsSortedAsc(ts) == \A i \in 1..Len(ts), j \in 1..Len(ts) : i < j => ts[i] <= ts[j]

\* C12: firstCommitTimes is in non-decreasing order in the result of every
\* local and every remote collection and in the totals of the document,
\* whatever order git or the API listed the commits in.
C12_FirstCommitTimesSorted ==
    \A p \in Procs :
        LET pr == proc[p]
        IN /\ \A i \in 1..Len(pr.coll) :
                 IsSome(pr.coll[i].result) =>
                     IsSortedAsc(Get(pr.coll[i].result).firstCommitTimes)
           /\ IsSome(pr.payload) =>
                 IsSortedAsc(Get(pr.payload).totals.firstCommitTimes)

C12_Witness ==
    \E p \in Procs :
        /\ IsSome(proc[p].payload)
        /\ Len(Get(proc[p].payload).totals.firstCommitTimes) = 2
        /\ \E i \in OkRepos(proc[p]), j \in OkRepos(proc[p]) :
              /\ IsSome(proc[p].coll[i].log)
              /\ Get(proc[p].coll[i].log).success
              /\ Len(Get(proc[p].coll[i].log).out) = 3
              /\ Get(proc[p].coll[i].log).out[1].date < Get(proc[p].coll[i].log).out[2].date
              /\ Len(Get(proc[p].coll[i].result).firstCommitTimes) = 2
              /\ parseRepoIdentifier(proc[p].repos[j].path).type = "github"
              /\ Len(Get(proc[p].coll[j].result).firstCommitTimes) = 2

RemoteRepos(pr) ==
    {i \in 1..Len(pr.coll) : parseRepoIdentifier(pr.repos[i].path).type = "github"}
RemoteDone(pr) == {i \in RemoteRepos(pr) : pr.coll[i].st = "ok"}

\* C13: the listing loop asks for pages of 100 and ends: it goes on only
\* after full pages, stops at the first page shorter than 100, and otherwise
\* after page 50 with the warning, returning a result over the 5000 commits
\* fetched.
C13_ListingStopsAtShortPageOrCap ==
    \A p \in Procs :
        LET pr == proc[p]
        IN \A i \in RemoteRepos(pr) :
              LET c == pr.coll[i]
              IN /\ c.page <= MaxPages
                 /\ c.lastLen <= PerPage
                 /\ c.st = "page" =>
                       /\ Len(c.commits) = (c.page - 1) * PerPage
                       /\ c.page > 1 => c.lastLen = PerPage
                       /\ ~c.warned
                 /\ c.st \in {"detail", "ok"} =>
                       \/ c.lastLen < PerPage /\ ~c.warned
                       \/ c.lastLen = PerPage /\ c.page = MaxPages /\ c.warned
                 /\ c.st = "ok" =>
                       LET n == Get(c.result).commits
                       IN /\ n = (c.page - 1) * PerPage + c.lastLen
                          /\ n = IF Get(env.remote) < PerPage * MaxPages
                                 THEN Get(env.remote) ELSE PerPage * MaxPages

C13_Witness ==
    \E p \in Procs :
        \E i \in RemoteDone(proc[p]) :
            /\ Get(env.remote) > PerPage * MaxPages
            /\ proc[p].coll[i].warned
            /\ proc[p].coll[i].page = MaxPages
            /\ Get(proc[p].coll[i].result).commits = PerPage * MaxPages

\* "about 20": not more than 20 and not fewer than three quarters of 20
AboutSampleLimit(k) == k <= SampleLimit /\ 4 * k >= 3 * SampleLimit

\* C14: a remote collection makes a detail request for every listed commit
\* when they are at most 20, and for about 20 of them when they are more.
C14_DetailForAllOrAboutTwenty ==
    \A p \in Procs :
        \A i \in RemoteDone(proc[p]) :
            LET n == Get(proc[p].coll[i].result).commits
                k == proc[p].coll[i].k
            IN IF n <= SampleLimit THEN k = n ELSE AboutSampleLimit(k)

\* C15: a remote collection over 25 commits samples about 20 of them and
\* reports linesAdded within 1 of (sum of the sampled additions) * 25 / 20.
C15_TwentyFiveCommitsScaledByFiveQuarters ==
    \A p \in Procs :
        \A i \in RemoteDone(proc[p]) :
            LET c == proc[p].coll[i]
                n == Get(c.result).commits
                reported == Get(c.result).linesAdded
                d == SampleLimit * reported - n * c.added
            IN n = SampleLimit + 5 =>
                  /\ AboutSampleLimit(c.k)
                  /\ d <= SampleLimit /\ -d <= SampleLimit

\* C16: when a remote collection samples, filesChanged, testFilesChanged and
\* docFilesChanged are the counts over the sampled commits multiplied by
\* total / sampled and rounded, like the line counts.
C16_FileCountsExtrapolated ==
    \A p \in Procs :
        \A i \in RemoteDone(proc[p]) :
            LET c == proc[p].coll[i]
                r == Get(c.result)
            IN (r.commits > SampleLimit /\ c.k < r.commits) =>
                  /\ r.filesChanged = ScaleRound(Cardinality(c.files), r.commits, c.k)
                  /\ r.testFilesChanged =
                        ScaleRound(Cardinality({f \in c.files : isTestFile(f)}), r.commits, c.k)
                  /\ r.docFilesChanged =
                        ScaleRound(Cardinality({f \in c.files : isDocFile(f)}), r.commits, c.k)

\* max(1, ceil(w / one day)): the least k >= 1 with k days >= w
ClaimDivisor(w) ==
    CHOOSE k \in 1..(w \div MsPerDay + 1) :
        k * MsPerDay >= w /\ (k = 1 \/ (k - 1) * MsPerDay < w)

\* C17: in every result of a local or remote collection avgCommitsPerDay is
\* commits / max(1, ceil(window in days)); the divisor is at least 1, and
\* with no commit both commits and avgCommitsPerDay are 0.
C17_AvgIsCommitsOverClampedDays ==
    \A p \in Procs :
        LET pr == proc[p]
        IN \A i \in OkRepos(pr) :
              LET r == Get(pr.coll[i].result)
                  w == pr.endDate - Get(pr.block).startDate
              IN /\ w >= 0
                 /\ ClaimDivisor(w) >= 1
                 /\ r.avgCommitsPerDay.d > 0
                 /\ r.avgCommitsPerDay.n * ClaimDivisor(w) = r.commits * r.avgCommitsPerDay.d
                 /\ r.commits = 0 => r.avgCommitsPerDay = RatZero

C17_Witness ==
    \E p \in Procs :
        LET pr == proc[p]
        IN /\ IsSome(pr.block)
           /\ pr.endDate - Get(pr.block).startDate = TickStep
           /\ \E i \in OkRepos(pr), j \in OkRepos(pr) :
                 /\ parseRepoIdentifier(pr.repos[i].path).type = "local"
                 /\ Get(pr.coll[i].result).commits = 0
                 /\ Get(pr.coll[i].result).avgCommitsPerDay = RatZero
                 /\ parseRepoIdentifier(pr.repos[j].path).type = "github"
                 /\ Get(pr.coll[j].result).commits = 2
                 /\ Get(pr.coll[j].result).avgCommitsPerDay = Rat(2, 1)

C19_BlockEndCachesMetrics ==
    \A p \in Procs :
        LET pr == proc[p]
        IN (pr.cmd = "blockEnd" /\ pr.pc = "done" /\ pr.outcome = "ok") =>
              LET blk == Get(pr.block)
              IN /\ blk.id \in DOMAIN cache
                 /\ cache[blk.id].complete
                 /\ Parse(cache[blk.id].text).dateRange =
                        [start |-> blk.startDate, end |-> Get(blk.endDate)]

\* C20: `config add repos o/r` succeeds without a directory of that name and
\* leaves an entry that parseRepoIdentifier resolves to the GitHub
\* repository o/r.
C20_AddOwnerRepoRegistersGitHub ==
    \A p \in Procs :
        LET pr == proc[p]
        IN (pr.cmd = "configAdd" /\ pr.pc = "done" /\ pr.arg = <<"o", "/", "r">>) =>
              /\ pr.outcome = "ok"
              /\ \E i \in 1..Len(config) :
                    parseRepoIdentifier(config[i].path) = GitHubId(<<"o">>, <<"r">>)

\* C21: with a token present, a failed identity call (non-OK status or a
\* rejected fetch) leaves the listing without an author filter and never
\* fails the repository: the collection goes on to the listing, and a
\* failure recorded afterwards is one of the listing's own.
C21_IdentityFailureIsNotAnError ==
    \A p \in Procs :
        LET pr == proc[p]
        IN \A i \in 1..Len(pr.coll) :
              /\ pr.coll[i].userFailed =>
                    /\ token
                    /\ pr.coll[i].author = None
                    /\ pr.coll[i].st /= "user"
                    /\ pr.coll[i].error /= "user"
                    /\ pr.coll[i].st = "failed" =>
                          pr.coll[i].error \in {"auth", "notfound", "api"}
              /\ IsSome(pr.coll[i].author) => token /\ ~pr.coll[i].userFailed

C21_Witness ==
    \E p \in Procs :
        \E i \in RemoteDone(proc[p]) :
            /\ token
            /\ proc[p].coll[i].userFailed
            /\ proc[p].coll[i].author = None
            /\ Get(proc[p].coll[i].result).commits = SampleLimit + 5
            /\ ObjHas(proc[p].repoMetrics, proc[p].repos[i].path)

\* C22: a listing answered 401 or 403 fails the repository with the
\* authentication message, one answered 404 with the not-found-or-private
\* message, a different one; the repository gets no entry and the batch
\* finishes the other repositories.
C22_AuthAndNotFoundDistinguished ==
    \A p \in Procs :
        LET pr == proc[p]
        IN \A i \in 1..Len(pr.coll) :
              /\ pr.coll[i].status \in {401, 403} =>
                    pr.coll[i].st = "failed" /\ pr.coll[i].error = "auth"
              /\ pr.coll[i].status = 404 =>
                    pr.coll[i].st = "failed" /\ pr.coll[i].error = "notfound"
              /\ pr.coll[i].error \in {"auth", "notfound"} =>
                    /\ pr.coll[i].status \in {401, 403, 404}
                    /\ pr.coll[i].result = None
                    /\ ~ObjHas(pr.repoMetrics, pr.repos[i].path)
                    /\ PastCollection(pr) =>
                          \A j \in 1..Len(pr.coll) : Finished(pr.coll[j].st)

C22_Witness ==
    \E p \in Procs :
        /\ PastCollection(proc[p])
        /\ Len(proc[p].coll) = 2
        /\ proc[p].coll[1].status = 403
        /\ proc[p].coll[1].error = "auth"
        /\ proc[p].coll[2].st = "ok"
        /\ IsSome(proc[p].payload)
        /\ Len(Get(proc[p].payload).repositories) = 1

ActiveBlocks == {b \in DOMAIN blocks : blocks[b].endDate = None}

\* C23: a `block start` that begins while some block has no end date exits
\* with status 1 at its first check, writes no block then, and has no
\* later step in which it could write one.
C23_BlockStartFailsWhenActive ==
    /\ [][\A p \in Procs :
            (proc[p].pc = "idle" /\ proc'[p].cmd = "blockStart" /\ ActiveBlocks /= {}) =>
                /\ proc'[p].pc = "done"
                /\ proc'[p].outcome = "exit1"
                /\ blocks' = blocks]_vars
    /\ [](\A p \in Procs :
            (proc[p].cmd = "blockStart" /\ proc[p].outcome = "exit1") => proc[p].pc = "done")

C23_Witness ==
    \E p \in Procs :
        /\ proc[p].cmd = "blockStart"
        /\ proc[p].pc = "done"
        /\ proc[p].outcome = "exit1"
        /\ IsSome(proc[p].block)
        /\ Get(proc[p].block).id \in ActiveBlocks
        /\ Cardinality(DOMAIN blocks) = 1

\* C29: at no time do two blocks of the experiment lack an end date.
C29_AtMostOneActiveBlock == Cardinality(ActiveBlocks) <= 1

\* the string begins with "/", "~" or "."
ClaimLocalMarker(str) == str /= <<>> /\ str[1] \in {"/", "~", "."}

\* C24: a string that begins with "/", "~" or "." resolves to Local whatever
\* follows, with the string itself as path, a leading "~" replaced by the
\* home directory.
C24_PathMarkerMeansLocal ==
    (IsSome(idOut) /\ ClaimLocalMarker(idIn)) =>
        /\ Get(idOut).type = "local"
        /\ Get(idOut).path =
              IF idIn[1] = "~" THEN Home \o SubSeq(idIn, 2, Len(idIn)) ELSE idIn

C24_Witness ==
    /\ idIn = <<".", "/">> \o GithubHost \o <<"o", "/", "r">>
    /\ idOut = Some(LocalId(idIn))

\* <owner>/<repo>: exactly one "/", with something on either side
ClaimShorthand(str) ==
    \E k \in 2..(Len(str) - 1) :
        str[k] = "/" /\ \A j \in 1..Len(str) : str[j] = "/" => j = k

\* optional http:// or https://, optional www., github.com/, <owner>/<repo>
ClaimUrlPattern(str) ==
    \E sc \in IdSchemes, w \in IdWww :
        LET pre == sc \o w \o GithubHost
        IN /\ StartsWith(str, pre)
           /\ ClaimShorthand(SubSeq(str, Len(pre) + 1, Len(str)))

\* C25: a string without a leading "/", "~" or "." resolves to the hosted
\* repository exactly when it is a github.com URL of the stated form or an
\* owner/repo shorthand; any other string resolves to Local with the string
\* unchanged as path.
C25_RemoteIffUrlOrShorthand ==
    (IsSome(idOut) /\ ~ClaimLocalMarker(idIn)) =>
        IF ClaimUrlPattern(idIn) \/ ClaimShorthand(idIn)
        THEN Get(idOut).type = "github"
        ELSE idOut = Some(LocalId(idIn))

\* C26: a run of `devex metrics` that computed, found no document in the
\* cache and collected none of the configured repositories leaves the cache
\* without a document for the block.
C26_NoDocumentWhenNothingCollected ==
    \A p \in Procs :
        LET pr == proc[p]
        IN (/\ pr.cmd = "metrics"
            /\ pr.pc = "done"
            /\ pr.computed
            /\ pr.startCache = None
            /\ OkRepos(pr) = {}) =>
              Get(pr.block).id \notin DOMAIN cache

\* C27: a remote repository whose listing failed on a page after the first
\* is failed as a whole: the commits of the earlier pages are dropped, it has
\* no result and no entry, and the totals of the document count only the
\* repositories collected.
C27_LaterPageFailureDiscardsListing ==
    \A p \in Procs :
        LET pr == proc[p]
        IN \A i \in RemoteRepos(pr) :
              (pr.coll[i].st = "failed" /\ pr.coll[i].page > 1) =>
                  /\ pr.coll[i].status /= 200
                  /\ pr.coll[i].lastLen = PerPage
                  /\ pr.coll[i].commits = <<>>
                  /\ pr.coll[i].result = None
                  /\ ~ObjHas(pr.repoMetrics, pr.repos[i].path)
                  /\ IsSome(pr.payload) =>
                        LET doc == Get(pr.payload)
                            res == [j \in OkRepos(pr) |-> Get(pr.coll[j].result)]
                        IN /\ ~ObjHas(doc.repositories, pr.repos[i].path)
                           /\ \A f \in CountFields :
                                 doc.totals[f] = SumOver(OkRepos(pr), res, f)

C27_Witness ==
    \E p \in Procs :
        /\ IsSome(proc[p].payload)
        /\ Len(proc[p].coll) = 2
        /\ proc[p].coll[1].st = "failed"
        /\ proc[p].coll[1].page = 3
        /\ proc[p].coll[1].status = 500
        /\ proc[p].coll[1].error = "api"
        /\ proc[p].coll[2].st = "ok"
        /\ Get(proc[p].payload).totals.commits = 2
        /\ Len(Get(proc[p].payload).repositories) = 1

\* C28: when a detail request of a finished remote collection was answered
\* non-OK, the line counts reported are those of the requests that succeeded,
\* extrapolated over their number: the commit is left out of the
\* denominator, not counted as one that changed nothing.
C28_FailedDetailIsNotAZeroCommit ==
    \A p \in Procs :
        LET pr == proc[p]
        IN \A i \in RemoteDone(pr) :
              pr.coll[i].missed > 0 =>
                  LET c == pr.coll[i]
                      r == Get(c.result)
                      answered == c.k - c.missed
                  IN /\ answered > 0
                     /\ r.linesAdded = ScaleRound(c.added, r.commits, answered)
                     /\ r.linesRemoved = ScaleRound(c.removed, r.commits, answered)

ReadCommands == {"report", "compare"}

\* C30: no step of a report or compare command creates, changes or removes a
\* metrics file or a temporary file, and such a command makes no git
\* invocation and no API request and does not compute, whether or not the
\* blocks it names have a metrics file.
C30_ReportAndCompareOnlyRead ==
    [][\A p \in Procs :
          (/\ proc'[p] /= proc[p]
           /\ proc[p].cmd \in ReadCommands \/ proc'[p].cmd \in ReadCommands) =>
              /\ cache' = cache
              /\ tmp' = tmp
              /\ blocks' = blocks
              /\ proc'[p].gitCalls = 0
              /\ proc'[p].apiCalls = 0
              /\ proc'[p].writes = 0
              /\ ~proc'[p].computed
              /\ proc'[p].coll = <<>>]_vars

C30_Witness ==
    \E p \in Procs :
        /\ proc[p].cmd = "compare"
        /\ proc[p].pc = "done"
        /\ proc[p].outcome = "ok"
        /\ proc[p].arg = <<BlockId(1), BlockId(2)>>
        /\ BlockId(1) \notin DOMAIN cache
        /\ BlockId(2) \in DOMAIN cache
        /\ IsSome(proc[p].metrics)
        /\ Get(proc[p].metrics).totals.commits > 0

=============================================================================
